---- MODULE Spec2Model ----
(***************************************************************************)
(* Model of bootstrap_contrast/bootstrap_tools.py: the constructor of      *)
(* class bootstrap (called "analyze" in the specification), the helper     *)
(* jackknife_indexes and the BCa solver bca.                               *)
(*                                                                         *)
(* Numbers.  Sample values, replicates and summary statistics are exact    *)
(* rationals <<n, d>> with d > 0; <<0, 0>> is NaN (0/0, the value of       *)
(* np.mean on an empty array).  Standard-normal quantiles are symbolic:    *)
(* a z-score is the quantile of a known probability (ppf), NaN, or a       *)
(* value that is not tracked ("fin": some finite real, "ext": some finite  *)
(* or infinite real).  The acceleration is tracked by its class only       *)
(* (nan, zero, neg, pos).  norm.cdf of an untracked z-score is any         *)
(* probability of a grid on [0, 1], so every index the code can produce    *)
(* from it is produced by the model.                                       *)
(***************************************************************************)
EXTENDS Integers, Sequences, FiniteSets, TLC

\* Bounds of the model.
MaxLen == 2        \* longest sample
MaxReps == 2       \* largest reps for which every outcome of the resampler is explored
BigReps == 22      \* a reps beyond the ten extreme ranks of both tails, run on constant samples
JackLen == 4       \* longest input of the jackknife index generator run on its own
MaxJKCalls == 2    \* invocations of the generator on one input

VARIABLES
    x1, x2, paired, alpha_level, reps,      \* the arguments of the call
    pc, error,                              \* position in __init__, message of the ValueError raised
    alphas, diff, tdata, summ_stat,         \* locals of __init__
    ref_statarray, statarray, pct_low_high, bca_low_high,
    pvalues,                                \* the five p-values (ttest_single, ...)
    z0, jackindexes, jstat, a, avals,       \* locals of bca
    warnings_emitted,                       \* warnings.warn calls, in order
    resample_calls,                         \* calls of sns.algorithms.bootstrap so far
    jk_calls,                               \* calls of jackknife_indexes so far
    result                                  \* <<>> or <<the attributes set on self>>

vars == <<x1, x2, paired, alpha_level, reps, pc, error, alphas, diff, tdata,
          summ_stat, ref_statarray, statarray, pct_low_high, bca_low_high,
          pvalues, z0, jackindexes, jstat, a, avals, warnings_emitted,
          resample_calls, jk_calls, result>>

----------------------------------------------------------------------------
\* Exact rational arithmetic with NaN.

RECURSIVE GCD(_, _)
GCD(m, n) == IF n = 0 THEN m ELSE GCD(n, m % n)

Abs(n) == IF n < 0 THEN -n ELSE n

NaN == <<0, 0>>
IsNaN(r) == r[2] = 0

Norm(n, d) ==
    IF d = 0 THEN NaN
    ELSE LET s == IF d < 0 THEN -1 ELSE 1
             g == GCD(Abs(n), Abs(d))
         IN  <<(s * n) \div g, (s * d) \div g>>

R(i) == <<i, 1>>
LCM(m, n) == (m \div GCD(m, n)) * n
RAdd(p, q) ==
    IF IsNaN(p) \/ IsNaN(q) THEN NaN
    ELSE LET l == LCM(p[2], q[2])
         IN  Norm(p[1] * (l \div p[2]) + q[1] * (l \div q[2]), l)
RNeg(p) == IF IsNaN(p) THEN NaN ELSE <<-p[1], p[2]>>
RSub(p, q) == RAdd(p, RNeg(q))
RMul(p, q) == IF IsNaN(p) \/ IsNaN(q) THEN NaN ELSE Norm(p[1] * q[1], p[2] * q[2])
RDivInt(p, k) == IF IsNaN(p) THEN NaN ELSE Norm(p[1], p[2] * k)
\* Comparisons with NaN are false, as in IEEE arithmetic.
RLt(p, q) == ~IsNaN(p) /\ ~IsNaN(q) /\ p[1] * q[2] < q[1] * p[2]
RLe(p, q) == ~IsNaN(p) /\ ~IsNaN(q) /\ p[1] * q[2] <= q[1] * p[2]

RECURSIVE RSum(_)
RSum(s) == IF s = <<>> THEN R(0) ELSE RAdd(Head(s), RSum(Tail(s)))

----------------------------------------------------------------------------
\* numpy helpers.

\* np.round: round half to even; np.round(nan) is nan.
Round(r) ==
    IF IsNaN(r) THEN NaN
    ELSE LET q == r[1] \div r[2]
             m == r[1] % r[2]
         IN  IF 2 * m < r[2] THEN R(q)
             ELSE IF 2 * m > r[2] THEN R(q + 1)
             ELSE IF q % 2 = 0 THEN R(q) ELSE R(q + 1)

\* NanToNumInt with nan mapped to -1 instead of 0.
NanToNumInt_MinusOne(r) == IF IsNaN(r) THEN -1 ELSE r[1]

\* np.nan_to_num(v).astype('int') of one rounded value.
NanToNumInt(r) == IF IsNaN(r) THEN 0 ELSE r[1]

\* statfunction, by default np.mean: the mean of an empty array is nan.
Mean(s) == IF Len(s) = 0 THEN NaN ELSE RDivInt(RSum(s), Len(s))
statfunction(s) == Mean(s)

\* Sort that leaves the array as it is.
Sort_None(s) == s

\* ndarray.sort(): ascending, by insertion.
RECURSIVE Insert(_, _)
Insert(v, s) ==
    IF s = <<>> THEN <<v>>
    ELSE IF RLe(v, Head(s)) THEN <<v>> \o s
    ELSE <<Head(s)>> \o Insert(v, Tail(s))

RECURSIVE Sort(_)
Sort(s) == IF s = <<>> THEN <<>> ELSE Insert(Head(s), Sort(Tail(s)))

\* exp_statarray - ref_statarray and x2 - x1: elementwise difference.
ArraySub(u, v) == [i \in 1..Len(u) |-> RSub(u[i], v[i])]

\* np.sum(statarray < ostat)
CountLess(s, v) == Cardinality({i \in 1..Len(s) : RLt(s[i], v)})

ToReal(s) == [i \in 1..Len(s) |-> R(s[i])]

----------------------------------------------------------------------------
\* jackknife_indexes(data): the generator of np.delete(base, i) for i in base.
\* Index values are 0-based as in the source; sequences are 1-based.

Base(n) == [j \in 1..n |-> j - 1]

\* Delete that removes the element after position i.
Delete_OffByOne(base, i) ==
    [j \in 1..(Len(base) - 1) |-> IF j <= i + 1 THEN base[j] ELSE base[j + 1]]

\* np.delete(base, i): base without the element at 0-based position i.
Delete(base, i) ==
    [j \in 1..(Len(base) - 1) |-> IF j <= i THEN base[j] ELSE base[j + 1]]

jackknife_indexes(data) ==
    LET base == Base(Len(data))
    IN  [k \in 1..Len(data) |-> Delete(base, base[k])]

\* x[indexes]: fancy indexing with 0-based indexes.
Take(x, indexes) == [j \in 1..Len(indexes) |-> x[indexes[j] + 1]]

\* jstat=[statfunction(*(x[indexes] for x in data)) for indexes in jackindexes]
JackStat(data, indexes) == [k \in 1..Len(indexes) |-> statfunction(Take(data, indexes[k]))]

----------------------------------------------------------------------------
\* scipy.stats.norm on symbolic z-scores.

Z(kind, p) == [k |-> kind, p |-> p]
ZNaN == Z("nan", NaN)
ZFin == Z("fin", NaN)      \* some finite real, value not tracked
ZExt == Z("ext", NaN)      \* some finite or infinite real, value not tracked
ZAny == Z("any", NaN)      \* not tracked at all (may be nan)

IsNegInf(z) == z.k = "ppf" /\ z.p = R(0)
IsPosInf(z) == z.k = "ppf" /\ z.p = R(1)
IsInf(z) == IsNegInf(z) \/ IsPosInf(z)
IsZero(z) == z.k = "ppf" /\ z.p = <<1, 2>>

\* norm.ppf(q): nan outside [0, 1], -inf at 0, +inf at 1, 0 at 1/2.
Ppf(q) ==
    IF IsNaN(q) \/ RLt(q, R(0)) \/ RLt(R(1), q) THEN ZNaN ELSE Z("ppf", q)

\* IEEE addition of two z-scores.
ZAdd(u, v) ==
    IF u.k = "nan" \/ v.k = "nan" THEN ZNaN
    ELSE IF u.k = "any" \/ v.k = "any" THEN ZAny
    ELSE IF IsInf(u) /\ IsInf(v) THEN (IF u = v THEN u ELSE ZNaN)
    ELSE IF IsInf(u) THEN (IF v.k = "ext" THEN ZAny ELSE u)
    ELSE IF IsInf(v) THEN (IF u.k = "ext" THEN ZAny ELSE v)
    ELSE IF u.k = "ext" /\ v.k = "ext" THEN ZAny
    ELSE IF u.k = "ext" \/ v.k = "ext" THEN ZExt
    ELSE IF IsZero(u) THEN v
    ELSE IF IsZero(v) THEN u
    ELSE ZFin

\* zs/(1-a*zs) for an acceleration of class acc.
ZAdjust(zs, acc) ==
    IF zs.k = "nan" \/ acc = "nan" THEN ZNaN
    ELSE IF zs.k = "any" \/ zs.k = "ext" THEN ZAny
    ELSE IF IsInf(zs) THEN ZNaN            \* 0*inf is nan; inf/inf is nan
    ELSE IF acc = "zero" \/ IsZero(zs) THEN zs
    ELSE ZExt                              \* 1-a*zs may vanish: x/0 is +-inf

\* The values norm.cdf can return for an untracked z-score when the
\* replicate distribution has n values: a grid on [0, 1], ends included,
\* fine enough to reach each of the n order statistics.
CdfGrid(n) == IF n = 1 THEN {R(0), R(1)} ELSE {Norm(c, n - 1) : c \in 0..(n - 1)}

\* norm.cdf(z): the values it may return.
Cdf(z, n) ==
    IF z.k = "nan" THEN {NaN}
    ELSE IF z.k = "ppf" THEN {z.p}
    ELSE IF z.k = "any" THEN CdfGrid(n) \cup {NaN}
    ELSE CdfGrid(n)

----------------------------------------------------------------------------
\* The Acceleration value of bca, by class.

Cube(r) == RMul(r, RMul(r, r))
Square(r) == RMul(r, r)

\* a=np.sum((jmean-jstat)**3)/(6.0*np.sum((jmean-jstat)**2)**1.5)
Acceleration(js) ==
    LET jmean == Mean(js)
        dev == [i \in 1..Len(js) |-> RSub(jmean, js[i])]
        num == RSum([i \in 1..Len(js) |-> Cube(dev[i])])
        den == RSum([i \in 1..Len(js) |-> Square(dev[i])])
    IN  IF IsNaN(num) \/ IsNaN(den) THEN "nan"
        ELSE IF den = R(0) THEN "nan"      \* 0/0
        ELSE IF num = R(0) THEN "zero"
        ELSE IF RLt(num, R(0)) THEN "neg" ELSE "pos"

\* OrderIndex without nan_to_num: nan cast to int is the smallest integer.
OrderIndex_NoNanToNum(n, p) ==
    IF IsNaN(p) THEN -2147483647 ELSE Round(RMul(R(n - 1), p))[1]

\* np.round((reps-1)*p) followed by nan_to_num(...).astype('int').
OrderIndex(n, p) == NanToNumInt(Round(RMul(R(n - 1), p)))

\* BcaAvals with zs=z0, the quantile of alpha left out.
BcaAvals_NoPpf(zz, acc, al, n) == Cdf(ZAdd(zz, ZAdjust(zz, acc)), n)

\* avals=norm.cdf(z0 + zs/(1-a*zs)), zs=z0 + norm.ppf(alphas), for one alpha.
BcaAvals(zz, acc, al, n) ==
    LET zs == ZAdd(zz, Ppf(al))
    IN  Cdf(ZAdd(zz, ZAdjust(zs, acc)), n)

\* The bias correction value z0 of bca.
BiasCorrection(sarr, ostat, n) == Ppf(Norm(CountLess(sarr, ostat), n))

----------------------------------------------------------------------------
\* Arguments of the call.

\* Samples are listed in ascending order: the summary statistic and the
\* resampler do not depend on the order of a sample.
Values == {0, 1}
Samples ==
    {s \in UNION {[1..n -> Values] : n \in 1..MaxLen} :
        \A i \in 1..(Len(s) - 1) : s[i] <= s[i + 1]}
ConstantSamples == {s \in Samples : \A i \in 1..Len(s) : s[i] = s[1]}
None == <<>>
Some(v) == <<v>>
\* alpha_level: below 0, 0, inside (0, 1), 1, above 1.
AlphaLevels == {<<-1, 2>>, <<0, 1>>, <<1, 4>>, <<1, 2>>, <<1, 1>>, <<3, 2>>}

\* The messages of the three ValueErrors.
AlphaError == "alpha_level must be between 0 and 1."
MissingX2Error == "Please specify x2."
LengthError == "x1 and x2 are not the same length."

\* The three warnings.
ExtremalWarning == "Some values used extremal samples results are probably unstable."
Top10Warning == "Some values used top 10 low/high samples results may be unstable."
AccelerationWarning == "Some acceleration values were undefined."

\* sns.algorithms.bootstrap(tx, func=statfunction, n_boot=n): every array of n
\* values, each the statistic of one resample of tx with replacement.
ReplicateValues(tx) ==
    {statfunction([i \in 1..Len(tx) |-> tx[ix[i]]]) : ix \in [1..Len(tx) -> 1..Len(tx)]}
Resample(tx, n) == [1..n -> ReplicateValues(tx)]

Unset == [ttest_single |-> "unset", ttest_2_ind |-> "unset", ttest_2_paired |-> "unset",
          wilcoxonresult |-> "unset", mannwhitneyresult |-> "unset"]

\* Get Percentile indices
PctIndices(n, al) == <<OrderIndex(n, al[1]), OrderIndex(n, al[2])>>

Init ==
    /\ \/ /\ reps \in 1..MaxReps
          /\ x1 \in {ToReal(s) : s \in Samples}
          /\ x2 \in {None} \cup {Some(ToReal(s)) : s \in Samples}
       \/ /\ reps = BigReps
          /\ x1 \in {ToReal(s) : s \in ConstantSamples}
          /\ x2 \in {None} \cup {Some(ToReal(s)) : s \in ConstantSamples}
    /\ paired \in BOOLEAN
    /\ alpha_level \in AlphaLevels
    /\ pc = "start"
    /\ error = ""
    /\ alphas = <<>>
    /\ diff = FALSE
    /\ tdata = <<>>
    /\ summ_stat = <<>>
    /\ ref_statarray = <<>>
    /\ statarray = <<>>
    /\ pct_low_high = <<>>
    /\ bca_low_high = <<>>
    /\ pvalues = Unset
    /\ z0 = Z("unset", NaN)
    /\ jackindexes = <<>>
    /\ jstat = <<>>
    /\ a = "unset"
    /\ avals = <<>>
    /\ warnings_emitted = <<>>
    /\ resample_calls = 0
    /\ jk_calls = 0
    /\ result = <<>>

\* if alpha_level>1. or alpha_level <0.: raise ValueError
AlphaRejected(al) == RLt(R(1), al) \/ RLt(al, R(0))

\* Compute two-sided alphas.
CheckAlpha ==
    /\ pc = "start"
    /\ IF AlphaRejected(alpha_level)
       THEN /\ pc' = "raised"
            /\ error' = AlphaError
            /\ UNCHANGED alphas
       ELSE /\ pc' = "check_paired"
            /\ alphas' = <<RDivInt(alpha_level, 2), RSub(R(1), RDivInt(alpha_level, 2))>>
            /\ UNCHANGED error
    /\ UNCHANGED <<x1, x2, paired, alpha_level, reps, diff, tdata, summ_stat,
                   ref_statarray, statarray, pct_low_high, bca_low_high, pvalues,
                   z0, jackindexes, jstat, a, avals, warnings_emitted,
                   resample_calls, jk_calls, result>>

\* PairedError without the test of x2 against None.
PairedError_NoMissingCheck ==
    IF ~paired THEN ""
    ELSE IF x2 # None /\ Len(x1) # Len(x2[1]) THEN LengthError
    ELSE ""

\* if paired: x2 must be given and as long as x1.
PairedError ==
    IF ~paired THEN ""
    ELSE IF x2 = None THEN MissingX2Error
    ELSE IF Len(x1) # Len(x2[1]) THEN LengthError
    ELSE ""

CheckPaired ==
    /\ pc = "check_paired"
    /\ IF PairedError # ""
       THEN pc' = "raised" /\ error' = PairedError
       ELSE pc' = "dispatch" /\ UNCHANGED error
    /\ UNCHANGED <<x1, x2, paired, alpha_level, reps, alphas, diff, tdata, summ_stat,
                   ref_statarray, statarray, pct_low_high, bca_low_high, pvalues,
                   z0, jackindexes, jstat, a, avals, warnings_emitted,
                   resample_calls, jk_calls, result>>

\* The p-values of the three branches.
SinglePvalues ==
    [ttest_single |-> "float", ttest_2_ind |-> "NIL", ttest_2_paired |-> "NIL",
     wilcoxonresult |-> "NIL", mannwhitneyresult |-> "NIL"]
\* PairedPvalues with the Mann-Whitney test computed as well.
PairedPvalues_WithMannWhitney ==
    [ttest_single |-> "NIL", ttest_2_ind |-> "NIL", ttest_2_paired |-> "float",
     wilcoxonresult |-> "float", mannwhitneyresult |-> "float"]

PairedPvalues ==
    [ttest_single |-> "NIL", ttest_2_ind |-> "NIL", ttest_2_paired |-> "float",
     wilcoxonresult |-> "float", mannwhitneyresult |-> "NIL"]
IndependentPvalues ==
    [ttest_single |-> "NIL", ttest_2_ind |-> "float", ttest_2_paired |-> "NIL",
     wilcoxonresult |-> "NIL", mannwhitneyresult |-> "float"]

\* The branch (x2 is None) or (paired is True), for the target sequence tx.
OneArray(tx, isdiff, pv) ==
    /\ diff' = isdiff
    /\ pvalues' = pv
    /\ tdata' = tx
    /\ summ_stat' = statfunction(tx)
    /\ \E boot \in Resample(tx, reps) : statarray' = Sort(boot)
    /\ resample_calls' = resample_calls + 1
    /\ pct_low_high' = PctIndices(reps, alphas)
    /\ pc' = "bca"
    /\ UNCHANGED <<x1, x2, alpha_level, reps, error, alphas, ref_statarray,
                   bca_low_high, z0, jackindexes, jstat, a, avals,
                   warnings_emitted, jk_calls, result>>

\* The conditions of the three branches.
IsSingleBranch == x2 = None
IsPairedBranch == x2 # None /\ paired = TRUE
IsIndependentBranch == ~(x2 = None \/ paired = TRUE) /\ (x2 # None /\ paired = FALSE)

SingleSample ==
    /\ pc = "dispatch"
    /\ IsSingleBranch
    /\ paired' = FALSE
    /\ OneArray(x1, FALSE, SinglePvalues)

PairedSamples ==
    /\ pc = "dispatch"
    /\ IsPairedBranch
    /\ UNCHANGED paired
    /\ OneArray(ArraySub(x2[1], x1), TRUE, PairedPvalues)

\* elif x2 is not None and paired is False: the first resampling call.
IndependentRef ==
    /\ pc = "dispatch"
    /\ IsIndependentBranch
    /\ diff' = TRUE
    /\ ref_statarray' \in Resample(x1, reps)
    /\ resample_calls' = resample_calls + 1
    /\ pc' = "independent_exp"
    /\ UNCHANGED <<x1, x2, paired, alpha_level, reps, error, alphas, tdata, summ_stat,
                   statarray, pct_low_high, bca_low_high, pvalues, z0, jackindexes,
                   jstat, a, avals, warnings_emitted, jk_calls, result>>

\* The second resampling call and the rest of the independent branch:
\* tdata=exp_statarray-ref_statarray; statarray=tdata.copy(); statarray.sort();
\* tdata=(tdata,).  ref_statarray is not read after the subtraction and is
\* dropped here.
IndependentExp ==
    /\ pc = "independent_exp"
    /\ \E exp \in Resample(x2[1], reps) :
          /\ tdata' = ArraySub(exp, ref_statarray)
          /\ statarray' = Sort(ArraySub(exp, ref_statarray))
    /\ ref_statarray' = <<>>
    /\ resample_calls' = resample_calls + 1
    /\ summ_stat' = RSub(statfunction(x2[1]), statfunction(x1))
    /\ pct_low_high' = PctIndices(reps, alphas)
    /\ pvalues' = IndependentPvalues
    /\ pc' = "bca"
    /\ UNCHANGED <<x1, x2, paired, alpha_level, reps, error, alphas, diff,
                   bca_low_high, z0, jackindexes, jstat, a, avals,
                   warnings_emitted, jk_calls, result>>

\* if np.any(np.isnan(a)): warnings.warn(...)
AccelerationWarnings(acc) == IF acc = "nan" THEN <<AccelerationWarning>> ELSE <<>>

\* bca(tdata, alphas, statarray, statfunction, summ_stat, reps)
Bca ==
    /\ pc = "bca"
    /\ LET zz == BiasCorrection(statarray, summ_stat, reps)
           jk == jackknife_indexes(tdata)
           js == JackStat(tdata, jk)
           acc == Acceleration(js)
       IN  /\ z0' = zz
           /\ jackindexes' = jk
           /\ jstat' = js
           /\ a' = acc
           /\ warnings_emitted' = warnings_emitted \o AccelerationWarnings(acc)
           /\ \E lo \in BcaAvals(zz, acc, alphas[1], reps),
                 hi \in BcaAvals(zz, acc, alphas[2], reps) :
                 /\ avals' = <<lo, hi>>
                 /\ bca_low_high' = <<OrderIndex(reps, lo), OrderIndex(reps, hi)>>
    /\ jk_calls' = jk_calls + 1
    /\ pc' = "warn"
    /\ UNCHANGED <<x1, x2, paired, alpha_level, reps, error, alphas, diff, tdata,
                   summ_stat, ref_statarray, statarray, pct_low_high, pvalues,
                   resample_calls, result>>

\* PairWarning with the two tests in the other order.
PairWarning_Top10First(ind, n) ==
    IF ind[1] < 10 \/ ind[2] < 10 \/ ind[1] >= n - 10 \/ ind[2] >= n - 10
    THEN <<Top10Warning>>
    ELSE IF ind[1] = 0 \/ ind[2] = 0 \/ ind[1] = n - 1 \/ ind[2] = n - 1
    THEN <<ExtremalWarning>>
    ELSE <<>>

\* Warnings for unstable or extreme indices: the body of the loop, for one
\* index pair.
PairWarning(ind, n) ==
    IF ind[1] = 0 \/ ind[2] = 0 \/ ind[1] = n - 1 \/ ind[2] = n - 1
    THEN <<ExtremalWarning>>
    ELSE IF ind[1] < 10 \/ ind[2] < 10 \/ ind[1] >= n - 10 \/ ind[2] >= n - 10
    THEN <<Top10Warning>>
    ELSE <<>>

\* for ind in [pct_low_high, bca_low_high]: ...
StabilityWarnings(pct, bcaind, n) == PairWarning(pct, n) \o PairWarning(bcaind, n)

\* statarray[i] with Python's indexing: negative indexes count from the end.
ValidIndex(arr, i) == -Len(arr) <= i /\ i < Len(arr)
ArrayAt(arr, i) == IF i < 0 THEN arr[Len(arr) + i + 1] ELSE arr[i + 1]

\* The warnings, then the attributes of self.
Finish ==
    /\ pc = "warn"
    /\ warnings_emitted' =
          warnings_emitted \o StabilityWarnings(pct_low_high, bca_low_high, reps)
    /\ IF \A i \in {pct_low_high[1], pct_low_high[2], bca_low_high[1], bca_low_high[2]} :
             ValidIndex(statarray, i)
       THEN /\ result' = <<[summary |-> summ_stat,
                            is_paired |-> paired,
                            is_difference |-> diff,
                            n_reps |-> reps,
                            ci |-> RMul(RSub(R(1), alpha_level), R(100)),
                            stat_array |-> statarray,
                            pct_ci_low |-> ArrayAt(statarray, pct_low_high[1]),
                            pct_ci_high |-> ArrayAt(statarray, pct_low_high[2]),
                            pct_low_high_indices |-> pct_low_high,
                            bca_ci_low |-> ArrayAt(statarray, bca_low_high[1]),
                            bca_ci_high |-> ArrayAt(statarray, bca_low_high[2]),
                            bca_low_high_indices |-> bca_low_high,
                            pvalue_1samp_ttest |-> pvalues.ttest_single,
                            pvalue_2samp_ind_ttest |-> pvalues.ttest_2_ind,
                            pvalue_2samp_paired_ttest |-> pvalues.ttest_2_paired,
                            pvalue_wilcoxon |-> pvalues.wilcoxonresult,
                            pvalue_mannWhitney |-> pvalues.mannwhitneyresult]>>
            /\ pc' = "done"
            /\ UNCHANGED error
       ELSE /\ pc' = "raised"
            /\ error' = "IndexError"
            /\ UNCHANGED result
    /\ UNCHANGED <<x1, x2, paired, alpha_level, reps, alphas, diff, tdata, summ_stat,
                   ref_statarray, statarray, pct_low_high, bca_low_high, pvalues,
                   z0, jackindexes, jstat, a, avals, resample_calls, jk_calls>>

Next ==
    \/ CheckAlpha
    \/ CheckPaired
    \/ SingleSample
    \/ PairedSamples
    \/ IndependentRef
    \/ IndependentExp
    \/ Bca
    \/ Finish

Spec == Init /\ [][Next]_vars

----------------------------------------------------------------------------
\* jackknife_indexes on its own: the generator is created by a call, yields
\* one index set per step and is exhausted after the last one.

JKInit ==
    /\ x1 \in {ToReal(s) : s \in UNION {[1..n -> Values] : n \in 0..JackLen}}
    /\ tdata = x1
    /\ x2 = None
    /\ paired = FALSE
    /\ alpha_level = <<1, 20>>
    /\ reps = 1
    /\ pc = "jk_idle"
    /\ error = ""
    /\ alphas = <<>>
    /\ diff = FALSE
    /\ summ_stat = <<>>
    /\ ref_statarray = <<>>
    /\ statarray = <<>>
    /\ pct_low_high = <<>>
    /\ bca_low_high = <<>>
    /\ pvalues = Unset
    /\ z0 = Z("unset", NaN)
    /\ jackindexes = <<>>
    /\ jstat = <<>>
    /\ a = "unset"
    /\ avals = <<>>
    /\ warnings_emitted = <<>>
    /\ resample_calls = 0
    /\ jk_calls = 0
    /\ result = <<>>

JKUnchanged ==
    UNCHANGED <<x1, x2, paired, alpha_level, reps, error, alphas, diff, tdata,
                summ_stat, ref_statarray, statarray, pct_low_high, bca_low_high,
                pvalues, z0, jstat, a, avals, warnings_emitted, resample_calls,
                result>>

\* jackknife_indexes(data): a fresh generator.
JKCall ==
    /\ pc \in {"jk_idle", "jk_exhausted"}
    /\ jk_calls < MaxJKCalls
    /\ jk_calls' = jk_calls + 1
    /\ jackindexes' = <<>>
    /\ pc' = "jk_iterating"
    /\ JKUnchanged

\* next(generator): np.delete(base, i) for the next i of base.
JKYield ==
    /\ pc = "jk_iterating"
    /\ Len(jackindexes) < Len(tdata)
    /\ jackindexes' = Append(jackindexes, jackknife_indexes(tdata)[Len(jackindexes) + 1])
    /\ UNCHANGED <<pc, jk_calls>>
    /\ JKUnchanged

\* StopIteration after the last i of base.
JKExhaust ==
    /\ pc = "jk_iterating"
    /\ Len(jackindexes) = Len(tdata)
    /\ pc' = "jk_exhausted"
    /\ UNCHANGED <<jackindexes, jk_calls>>
    /\ JKUnchanged

JKNext == JKCall \/ JKYield \/ JKExhaust

SpecJK == JKInit /\ [][JKNext]_vars

----------------------------------------------------------------------------
\* Properties.

Completed == pc = "done"
NothingComputed ==
    /\ resample_calls = 0
    /\ pvalues = Unset
    /\ statarray = <<>>
    /\ ref_statarray = <<>>
    /\ jk_calls = 0
    /\ result = <<>>
InOpenUnitInterval(al) == RLt(R(0), al) /\ RLt(al, R(1))
Emitted(w) == \E i \in 1..Len(warnings_emitted) : warnings_emitted[i] = w
TimesEmitted(w) == Cardinality({i \in 1..Len(warnings_emitted) : warnings_emitted[i] = w})

\* C1: every alpha that is not strictly inside (0, 1), the boundary values 0
\* and 1 included, makes the call fail with the alpha error before anything
\* else is computed.
C1_AlphaOutsideOpenIntervalRaises ==
    (~InOpenUnitInterval(alpha_level) /\ pc # "start") =>
        (pc = "raised" /\ error = AlphaError /\ NothingComputed)

\* C2: with paired=True and an accepted alpha, a missing x2 fails with the
\* missing-argument error and an x2 of another length with the length error,
\* both before the first call of the resampler and with no replicate
\* distribution built.
C2_PairedValidationBeforeResampling ==
    (paired /\ ~AlphaRejected(alpha_level) /\ pc \notin {"start", "check_paired"}) =>
        /\ x2 = None => (pc = "raised" /\ error = MissingX2Error /\ NothingComputed)
        /\ (x2 # None /\ Len(x1) # Len(x2[1])) =>
              (pc = "raised" /\ error = LengthError /\ NothingComputed)
        /\ (x2 # None /\ Len(x1) = Len(x2[1])) => pc # "raised"

C2_Witness ==
    /\ paired /\ x2 # None /\ InOpenUnitInterval(alpha_level)
    /\ pc = "raised" /\ error = LengthError

\* C3: in a completed call the two percentile indices and the two BCa indices
\* stored in the result are integers of 0..reps-1, also when the bias
\* constant is infinite or the acceleration is undefined.
C3_IndicesInRange ==
    Completed =>
        \A i \in 1..2 :
            /\ result[1].pct_low_high_indices[i] \in 0..(reps - 1)
            /\ result[1].bca_low_high_indices[i] \in 0..(reps - 1)

C3_Witness ==
    /\ Completed /\ reps > 1
    /\ IsInf(z0) /\ a = "nan"
    /\ result[1].pct_low_high_indices = <<0, reps - 1>>

ResultPvalues(r) ==
    [t \in {"1samp_ttest", "2samp_ind_ttest", "2samp_paired_ttest", "wilcoxon", "mannWhitney"} |->
        CASE t = "1samp_ttest" -> r.pvalue_1samp_ttest
          [] t = "2samp_ind_ttest" -> r.pvalue_2samp_ind_ttest
          [] t = "2samp_paired_ttest" -> r.pvalue_2samp_paired_ttest
          [] t = "wilcoxon" -> r.pvalue_wilcoxon
          [] t = "mannWhitney" -> r.pvalue_mannWhitney]
ExpectedTests ==
    IF x2 = None THEN {"1samp_ttest"}
    ELSE IF paired THEN {"2samp_paired_ttest", "wilcoxon"}
    ELSE {"2samp_ind_ttest", "mannWhitney"}
BoolToNat(b) == IF b THEN 1 ELSE 0

AllIndices == {pct_low_high[1], pct_low_high[2], bca_low_high[1], bca_low_high[2]}
IsExtremal(i) == i = 0 \/ i = reps - 1
IsNearTail(i) == i < 10 \/ i >= reps - 10

\* C5: an extremal index among the four gives the extremal
\* warning, the top-10 warning is emitted only when none of the four indices
\* is extremal, and no call emits both.
C5_NeverBothWarnings ==
    Completed =>
        /\ (\E i \in AllIndices : IsExtremal(i)) => Emitted(ExtremalWarning)
        /\ Emitted(Top10Warning) =>
              ((\A i \in AllIndices : ~IsExtremal(i)) /\ (\E i \in AllIndices : IsNearTail(i)))
        /\ ~(Emitted(ExtremalWarning) /\ Emitted(Top10Warning))

PairExtremal(ind) == IsExtremal(ind[1]) \/ IsExtremal(ind[2])
PairNearTail(ind) == IsNearTail(ind[1]) \/ IsNearTail(ind[2])

\* C5, amended: the rule is applied to each index pair on its own: a pair with
\* an index 0 or reps-1 gives one extremal warning, a pair without one but
\* with an index < 10 or >= reps-10 gives one top-10 warning, any other pair
\* none; the warnings never abort the call.
C5_WarningsPerIndexPair ==
    /\ Completed =>
          /\ TimesEmitted(ExtremalWarning) =
                Cardinality({k \in 1..2 : PairExtremal(<<pct_low_high, bca_low_high>>[k])})
          /\ TimesEmitted(Top10Warning) =
                Cardinality({k \in 1..2 :
                    LET ind == <<pct_low_high, bca_low_high>>[k]
                    IN  ~PairExtremal(ind) /\ PairNearTail(ind)})
    /\ warnings_emitted # <<>> => pc \in {"warn", "done"}

C5_Witness ==
    /\ Completed
    /\ Emitted(ExtremalWarning) /\ Emitted(Top10Warning)
    /\ ~PairExtremal(pct_low_high) /\ PairExtremal(bca_low_high)

SetOf(seq) == {seq[j] : j \in 1..Len(seq)}

\* C6: for a sample of length n >= 0 the generator yields exactly n index
\* sets, the i-th being 0..n-1 without i; every invocation yields the same
\* content afresh and leaves its input as it was.
C6_JackknifeIndexSets ==
    /\ tdata = x1
    /\ Len(jackindexes) <= Len(tdata)
    /\ pc = "jk_exhausted" => Len(jackindexes) = Len(tdata)
    /\ pc \in {"jk_iterating", "jk_exhausted"} =>
          \A k \in 1..Len(jackindexes) :
              /\ Len(jackindexes[k]) = Len(tdata) - 1
              /\ SetOf(jackindexes[k]) = (0..(Len(tdata) - 1)) \ {k - 1}

C6_Witness ==
    /\ pc = "jk_exhausted" /\ jk_calls = 2
    /\ Len(tdata) = 4 /\ Len(jackindexes) = 4

HalfEven(n, d) ==
    LET q == n \div d
        m == n % d
    IN  IF 2 * m < d \/ (2 * m = d /\ q % 2 = 0) THEN q ELSE q + 1

C8_JackknifeOverRawSamples ==
    (pc \in {"warn", "done"} /\ x2 # None /\ ~paired) =>
        /\ Len(jstat) = Len(x1)
        /\ tdata \in {x1, x2[1]}

\* C9: a BCa index that would be non-finite (undefined acceleration, or an
\* infinite bias constant) never makes the call raise, is stored as 0, and
\* comes with at least one warning.
C9_NonFiniteIndexIsZeroWithWarning ==
    pc \in {"warn", "done", "raised"} /\ avals # <<>> =>
        /\ (a = "nan" \/ IsInf(z0)) => (IsNaN(avals[1]) /\ IsNaN(avals[2]))
        /\ a = "nan" => Emitted(AccelerationWarning)
        /\ \A i \in 1..2 :
              IsNaN(avals[i]) =>
                  /\ pc # "raised"
                  /\ bca_low_high[i] = 0
                  /\ Completed =>
                        /\ result[1].bca_low_high_indices[i] = 0
                        /\ warnings_emitted # <<>>

C9_Witness ==
    /\ Completed /\ IsInf(z0) /\ a = "zero"
    /\ IsNaN(avals[1]) /\ IsNaN(avals[2])
    /\ ~Emitted(AccelerationWarning) /\ Emitted(ExtremalWarning)

IsAscending(arr) == \A i \in 1..(Len(arr) - 1) : RLe(arr[i], arr[i + 1])
Occurrences(arr, v) == Cardinality({i \in 1..Len(arr) : arr[i] = v})

\* C10: the replicate distribution has reps values and is ascending before an
\* index reads a bound from it (in independent mode it is the sorted
\* difference of the two replicate arrays), so pct_ci_low <= pct_ci_high.
C10_SortedBeforeIndexing ==
    /\ pc \in {"bca", "warn", "done"} =>
          /\ Len(statarray) = reps
          /\ IsAscending(statarray)
          /\ (x2 # None /\ ~paired) =>
                \A v \in SetOf(tdata) \cup SetOf(statarray) :
                    Occurrences(statarray, v) = Occurrences(tdata, v)
    /\ Completed =>
          /\ result[1].stat_array = statarray
          /\ RLe(result[1].pct_ci_low, result[1].pct_ci_high)

C10_Witness ==
    /\ Completed /\ x2 # None /\ ~paired
    /\ ~IsAscending(tdata)
    /\ RLt(result[1].pct_ci_low, result[1].pct_ci_high)

====
